---- MODULE Spec2Model ----
(***************************************************************************)
(* umbctl(8): control utility for the umb(4) MBIM cellular modem driver.   *)
(* Model of src/sbin/umbctl/umbctl.c: the text -> UTF-16LE encoder, the    *)
(* parameter record builder (_umbctl_set), the single-shot sequencer       *)
(* (_umbctl), the batch mode (_umbctl_file) and main().                    *)
(*                                                                         *)
(* A C string is a sequence of character codes without its NUL; a field   *)
(* buffer (uint16_t x[N]) is a sequence of 2*N bytes, so that the          *)
(* little-endian store of a code unit is modelled by what it writes.       *)
(***************************************************************************)
EXTENDS Integers, Sequences, FiniteSets, TLC

(* ------------------------------ bounds -------------------------------- *)
\* capacity, in code units, of every text field of struct umb_parameter
\* (the real capacities come from if_umbreg.h and are larger)
MaxUnits == 2
\* number of (name, value) pairs on the command line of a single-shot run
MaxPairs == 2
\* number of lines of the configuration file of a batch run
MaxLines == 2

(* --------------------------- program constants ------------------------ *)
\* ' ', '#' and the line terminator fgets() keeps
SP == 32
HASH == 35
NL == 10
\* char * tokens[3]
MaxTokens == 3
\* the value <dev/usb/mbim.h> gives the "enter code" operation
MBIM_PIN_OP_ENTER == 0

kw_apn == <<97, 112, 110>>
kw_username == <<117, 115, 101, 114, 110, 97, 109, 101>>
kw_password == <<112, 97, 115, 115, 119, 111, 114, 100>>
kw_pin == <<112, 105, 110>>
kw_puk == <<112, 117, 107>>
Keywords == {kw_apn, kw_username, kw_password, kw_pin, kw_puk}

(* ------------------------------ inputs -------------------------------- *)
\* an ASCII text of n characters; texts of different lengths differ in
\* their first character
Text(n) == [i \in 1..n |-> 65 + ((n + i) % 2)]
TShort == Text(1)
TFull == Text(MaxUnits)
TLong == Text(MaxUnits + 1)
Values == {Text(0), TShort, TFull, TLong}
Names == Keywords \cup {TShort}
Pairs == {<<n, v>> : n \in Names, v \in Values}
Dangling == {<<>>, <<kw_password>>}

RECURSIVE Flatten(_)
Flatten(ss) == IF ss = <<>> THEN <<>> ELSE Head(ss) \o Flatten(Tail(ss))

ArgvSet ==
    { Flatten(ps) \o d : ps \in UNION {[1..n -> Pairs] : n \in 0..MaxPairs},
                         d \in Dangling }
BatchArgvSet == {<<>>, <<kw_apn, TShort>>, <<kw_apn, TLong>>}

\* the tokens of a line, joined by single spaces
RECURSIVE JoinLine(_)
JoinLine(toks) ==
    IF toks = <<>> THEN <<>>
    ELSE IF Len(toks) = 1 THEN toks[1]
    ELSE toks[1] \o <<SP>> \o JoinLine(Tail(toks))

LineBodies ==
    { <<>>,
      <<kw_apn>>,
      <<kw_apn, TShort>>,
      <<kw_pin, TShort>>,
      <<kw_apn, TLong>>,
      <<TShort, TShort>>,
      <<kw_apn, TShort, TShort>>,
      <<<<HASH>>, kw_apn, TLong>> }
\* a line as fgets() returns it: with its line terminator, except possibly
\* the last line of the file, which is then not empty
FullLines == { JoinLine(b) \o <<NL>> : b \in LineBodies }
LastLines == FullLines \cup { JoinLine(b) : b \in LineBodies \ {<<>>} }
FileSet ==
    {<<>>} \cup
    UNION { { h \o <<l>> : h \in [1..(n - 1) -> FullLines], l \in LastLines }
            : n \in 1..MaxLines }

(* ----------------------- struct umb_parameter ------------------------- *)
BufLen == 2 * MaxUnits
ZeroBuf == [j \in 1..BufLen |-> 0]
\* memset(&umbp, 0, sizeof(umbp))
ZeroParam ==
    [ apn |-> ZeroBuf, apnlen |-> 0,
      username |-> ZeroBuf, usernamelen |-> 0,
      password |-> ZeroBuf, passwordlen |-> 0,
      pin |-> ZeroBuf, pinlen |-> 0,
      is_puk |-> 0, op |-> 0,
      roaming |-> 0, preferredclasses |-> 0 ]

\* the bytes in big-endian order
htobe16(c) == <<(c \div 256) % 256, c % 256>>
\* the little-endian bytes of the 16-bit code unit c
htole16(c) == <<c % 256, (c \div 256) % 256>>

\* what the driver may hand back on SIOCGUMBPARAM
DevParam ==
    [ apn |-> htole16(120) \o [j \in 1..(BufLen - 2) |-> 0], apnlen |-> 2,
      username |-> ZeroBuf, usernamelen |-> 0,
      password |-> [j \in 1..BufLen |-> IF j % 2 = 1 THEN 115 ELSE 0],
      passwordlen |-> BufLen,
      pin |-> [j \in 1..BufLen |-> IF j % 2 = 1 THEN 57 ELSE 0],
      pinlen |-> BufLen,
      is_puk |-> 1, op |-> 3,
      roaming |-> 1, preferredclasses |-> 6 ]
DevParams == {ZeroParam, DevParam}

(* --------------------------- _char_to_utf16 --------------------------- *)
\* the loop of _char_to_utf16 from the k-th character on, pos bytes of out
\* already written, n bytes counted
RECURSIVE c2u_loop(_, _, _, _, _)
c2u_loop(in, k, out, pos, n) ==
    IF k > Len(in)
    THEN [ n |-> n,
           out |-> [j \in 1..Len(out) |-> IF j > pos THEN 0 ELSE out[j]] ]
    ELSE IF Len(out) - pos < 2
    THEN [ n |-> -1, out |-> out ]
    ELSE c2u_loop(in, k + 1,
                  [out EXCEPT ![pos + 1] = htole16(in[k] % 65536)[1],
                              ![pos + 2] = htole16(in[k] % 65536)[2]],
                  pos + 2, n + 2)

\* an encoder that checks the length first and leaves out alone on overflow
_char_to_utf16_atomic(in, out) ==
    IF 2 * Len(in) > Len(out) THEN [n |-> -1, out |-> out]
    ELSE c2u_loop(in, 1, out, 0, 0)

\* the encoder without the memset of line 109
_char_to_utf16_nofill(in, out) ==
    LET r == c2u_loop(in, 1, out, 0, 0)
    IN  IF r.n < 0 THEN r
        ELSE [n |-> r.n,
              out |-> [j \in 1..Len(out) |->
                          IF j > r.n THEN out[j] ELSE r.out[j]]]
\* the encoder with the memset of line 109 applied at the start of the
\* buffer instead of at the end of the text
_char_to_utf16_fillhead(in, out) ==
    LET r == c2u_loop(in, 1, out, 0, 0)
    IN  IF r.n < 0 THEN r
        ELSE [n |-> r.n,
              out |-> [j \in 1..Len(out) |->
                          IF j <= Len(out) - r.n THEN 0
                          ELSE IF j <= r.n THEN r.out[j] ELSE out[j]]]

_char_to_utf16(in, out) == c2u_loop(in, 1, out, 0, 0)

(* ------------------------------- _error ------------------------------- *)
\* one line on stderr: "umbctl: <who>: <text>"; who is the interface name,
\* the file name, "socket", or a command-line token (arg)
Diag(who, arg, text) == [who |-> who, arg |-> arg, text |-> text]

(* ----------------------------- _umbctl_set ---------------------------- *)
\* the length test without its sign test
TooLong_unsigned(len) == len > BufLen
\* the length test that follows each call of _char_to_utf16
TooLong(len) == len < 0 \/ len > BufLen

\* the apn branch clearing the whole record first
set_apn_memset(umbp, v) ==
    LET r == _char_to_utf16(v, umbp.apn)
        u == [ZeroParam EXCEPT !.apn = r.out, !.apnlen = r.n]
    IN  [ret |-> IF TooLong(u.apnlen) THEN -1 ELSE 0, umbp |-> u,
         err |-> IF TooLong(u.apnlen)
                 THEN <<Diag("ifname", <<>>, "APN too long")>> ELSE <<>>]
\* lines 262-267: the apn branch applied to the value v
set_apn(umbp, v) ==
    LET r == _char_to_utf16(v, umbp.apn)
        u == [umbp EXCEPT !.apn = r.out, !.apnlen = r.n]
    IN  [ret |-> IF TooLong(u.apnlen) THEN -1 ELSE 0, umbp |-> u,
         err |-> IF TooLong(u.apnlen)
                 THEN <<Diag("ifname", <<>>, "APN too long")>> ELSE <<>>]

\* lines 272-277
set_username(umbp, v) ==
    LET r == _char_to_utf16(v, umbp.username)
        u == [umbp EXCEPT !.username = r.out, !.usernamelen = r.n]
    IN  [ret |-> IF TooLong(u.usernamelen) THEN -1 ELSE 0, umbp |-> u,
         err |-> IF TooLong(u.usernamelen)
                 THEN <<Diag("ifname", <<>>, "Username too long")>> ELSE <<>>]

\* the password branch echoing the value in its diagnostic
set_password_echo(umbp, v) ==
    LET r == _char_to_utf16(v, umbp.password)
        u == [umbp EXCEPT !.password = r.out, !.passwordlen = r.n]
    IN  [ret |-> IF TooLong(u.passwordlen) THEN -1 ELSE 0, umbp |-> u,
         err |-> IF TooLong(u.passwordlen)
                 THEN <<Diag("ifname", v, "Password too long")>> ELSE <<>>]
\* lines 282-287
set_password(umbp, v) ==
    LET r == _char_to_utf16(v, umbp.password)
        u == [umbp EXCEPT !.password = r.out, !.passwordlen = r.n]
    IN  [ret |-> IF TooLong(u.passwordlen) THEN -1 ELSE 0, umbp |-> u,
         err |-> IF TooLong(u.passwordlen)
                 THEN <<Diag("ifname", <<>>, "Password too long")>> ELSE <<>>]

\* the pin branch without umbp->is_puk = 0
set_pin_keeps_puk(umbp, v) ==
    LET r == _char_to_utf16(v, umbp.pin)
        u == [umbp EXCEPT !.op = MBIM_PIN_OP_ENTER,
                          !.pin = r.out, !.pinlen = r.n]
    IN  [ret |-> IF TooLong(u.pinlen) THEN -1 ELSE 0, umbp |-> u,
         err |-> IF TooLong(u.pinlen)
                 THEN <<Diag("ifname", <<>>, "PUK code too long")>> ELSE <<>>]
\* lines 292-299
set_pin(umbp, v) ==
    LET r == _char_to_utf16(v, umbp.pin)
        u == [umbp EXCEPT !.is_puk = 0, !.op = MBIM_PIN_OP_ENTER,
                          !.pin = r.out, !.pinlen = r.n]
    IN  [ret |-> IF TooLong(u.pinlen) THEN -1 ELSE 0, umbp |-> u,
         err |-> IF TooLong(u.pinlen)
                 THEN <<Diag("ifname", <<>>, "PUK code too long")>> ELSE <<>>]

\* lines 304-311
set_puk(umbp, v) ==
    LET r == _char_to_utf16(v, umbp.pin)
        u == [umbp EXCEPT !.is_puk = 1, !.op = MBIM_PIN_OP_ENTER,
                          !.pin = r.out, !.pinlen = r.n]
    IN  [ret |-> IF TooLong(u.pinlen) THEN -1 ELSE 0, umbp |-> u,
         err |-> IF TooLong(u.pinlen)
                 THEN <<Diag("ifname", <<>>, "PIN code too long")>> ELSE <<>>]

\* the if chain with the username branch writing the apn field
set_field_pasted(umbp, name, v) ==
    IF name = kw_apn \/ name = kw_username THEN set_apn(umbp, v)
    ELSE IF name = kw_password THEN set_password(umbp, v)
    ELSE IF name = kw_pin THEN set_pin(umbp, v)
    ELSE set_puk(umbp, v)
\* the branch of the if chain taken for argv[i] when a value follows it
set_field(umbp, name, v) ==
    IF name = kw_apn THEN set_apn(umbp, v)
    ELSE IF name = kw_username THEN set_username(umbp, v)
    ELSE IF name = kw_password THEN set_password(umbp, v)
    ELSE IF name = kw_pin THEN set_pin(umbp, v)
    ELSE set_puk(umbp, v)

\* the for loop of _umbctl_set from index i on (i counts from 0 as in C)
RECURSIVE set_loop(_, _, _, _)
set_loop(umbp, argc, argv, i) ==
    IF ~(i < argc) THEN [ret |-> 0, umbp |-> umbp, err |-> <<>>]
    ELSE IF argv[i + 1] \in Keywords /\ i + 1 < argc
    THEN LET r == set_field(umbp, argv[i + 1], argv[i + 2])
         IN  IF r.ret # 0 THEN r ELSE set_loop(r.umbp, argc, argv, i + 2)
    ELSE [ret |-> -1, umbp |-> umbp,
          err |-> <<Diag("arg", argv[i + 1],
                         "Unknown or incomplete parameter")>>]

_umbctl_set(umbp, argc, argv) == set_loop(umbp, argc, argv, 0)

(* ------------------------- line tokenisation -------------------------- *)
\* strtok_r(buf, " ", &last) called repeatedly: the maximal runs of
\* characters other than the space, in order (the line terminator is not a
\* delimiter and stays in its token)
RECURSIVE strtok_r(_, _)
strtok_r(s, cur) ==
    IF s = <<>> THEN (IF cur = <<>> THEN <<>> ELSE <<cur>>)
    ELSE IF Head(s) = SP
    THEN (IF cur = <<>> THEN <<>> ELSE <<cur>>) \o strtok_r(Tail(s), <<>>)
    ELSE strtok_r(Tail(s), Append(cur, Head(s)))

\* the number of tokens the for loop of _umbctl_file stores: the value of i
\* when the loop ends
TokenCount(line) ==
    IF Len(strtok_r(line, <<>>)) < MaxTokens
    THEN Len(strtok_r(line, <<>>)) ELSE MaxTokens

\* char * tokens[3]: the last valid index
TokensLast == MaxTokens - 1

\* tokens[i] = NULL with i = 3 writes one element past the array: undefined
\* behaviour.  What a build can make of it: the word written lands on dead
\* stack (harmless), on the loop counter i (which becomes 0), or the
\* process is killed.
OobOutcomes == {"harmless", "i_clobbered", "crash"}
Outcomes(i) == IF i > TokensLast THEN OobOutcomes ELSE {"in_bounds"}

(* --------------------------- control decisions ------------------------ *)
\* line 146: the read-modify-write cycle is entered with arguments only
HasArgs(argc) == argc # 0
\* the report printed after every push
InfoWanted_always(argc, verbose) == TRUE
\* line 159
InfoWanted(argc, verbose) == argc = 0 \/ verbose > 0
\* the request pointing at the record accumulated from the file
ifr_data_accumulated(own, accumulated) == accumulated
\* line 149: ifr.ifr_data = &umbp, the record of _umbctl itself, not the
\* one _umbctl_file accumulated
ifr_data(own, accumulated) == own
\* lines 206-207: the result of _umbctl is dropped
_umbctl_file_ret(r) == 0
\* every failure returning 2
_umbctl_ret_flat(site) == IF site = "end" THEN 0 ELSE 2
\* the value _umbctl returns when the step at `site' fails, and at the end
\* (lines 143, 156, 165, 170, 171)
_umbctl_ret(site) ==
    IF site = "getinfo" THEN 3
    ELSE IF site \in {"socket", "getparam", "set", "setparam", "close"} THEN 2
    ELSE 0
\* close(fd), lines 155, 164 and 169: the socket afterwards
close_leak(f) == f
close(f) == "closed"
\* line 203
SourceError(closed_ok, at_eof) == ~closed_ok \/ ~at_eof

(* --------------------------- _utf16_to_char --------------------------- *)
\* the k-th code unit of the little-endian buffer in, as htole16(*in) reads
\* it
le16(in, k) == in[2 * k - 1] + 256 * in[2 * k]

\* the while loop of _utf16_to_char: k code units consumed, inlen left,
\* o characters stored, outlen bytes left; rd is the set of code units
\* read and wr the list of <<index, byte>> stores into out (from 1)
RECURSIVE u2c_loop(_, _, _, _, _, _, _, _)
u2c_loop(in, k, inlen, out, o, outlen, rd, wr) ==
    IF ~(outlen > 0) THEN [out |-> out, rd |-> rd, wr |-> wr]
    ELSE LET c == IF inlen > 0 THEN le16(in, k + 1) ELSE 0
             rd2 == IF inlen > 0 THEN rd \cup {k + 1} ELSE rd
         IN  IF c = 0 \/ outlen - 1 = 0
             THEN [out |-> [out EXCEPT ![o + 1] = 0], rd |-> rd2,
                   wr |-> Append(wr, <<o + 1, 0>>)]
             ELSE LET ch == IF c <= 127 THEN c ELSE 63
                  IN  u2c_loop(in, k + 1, inlen - 1,
                               [out EXCEPT ![o + 1] = ch], o + 1, outlen - 1,
                               rd2, Append(wr, <<o + 1, ch>>))

\* the decoder without the inlen test of line 346
RECURSIVE u2c_loop_unbounded(_, _, _, _, _, _, _, _)
u2c_loop_unbounded(in, k, inlen, out, o, outlen, rd, wr) ==
    IF ~(outlen > 0) THEN [out |-> out, rd |-> rd, wr |-> wr]
    ELSE LET c == IF 2 * (k + 1) <= Len(in) THEN le16(in, k + 1) ELSE 0
             rd2 == rd \cup {k + 1}
         IN  IF c = 0 \/ outlen - 1 = 0
             THEN [out |-> [out EXCEPT ![o + 1] = 0], rd |-> rd2,
                   wr |-> Append(wr, <<o + 1, 0>>)]
             ELSE LET ch == IF c <= 127 THEN c ELSE 63
                  IN  u2c_loop_unbounded(in, k + 1, inlen - 1,
                               [out EXCEPT ![o + 1] = ch], o + 1, outlen - 1,
                               rd2, Append(wr, <<o + 1, ch>>))
_utf16_to_char_unbounded(in, inlen, outlen) ==
    u2c_loop_unbounded(in, 0, inlen, [j \in 1..outlen |-> -1], 0, outlen,
                       {}, <<>>)

\* _utf16_to_char on an output buffer of outlen bytes whose content is
\* not initialised (-1)
_utf16_to_char(in, inlen, outlen) ==
    u2c_loop(in, 0, inlen, [j \in 1..outlen |-> -1], 0, outlen, {}, <<>>)

\* the text in out up to its first NUL, as a C string reader sees it
RECURSIVE CString(_)
CString(out) ==
    IF out = <<>> \/ Head(out) = 0 THEN <<>>
    ELSE <<Head(out)>> \o CString(Tail(out))

(* ------------------------- inputs of the codec ------------------------ *)
\* every text over two ASCII letters, up to one character more than a
\* field holds
CodecTexts == UNION {[1..n -> {65, 66}] : n \in 0..(MaxUnits + 1)}
\* what the destination may hold before the encoder runs
FullBuf == [j \in 1..BufLen |-> IF j % 2 = 1 THEN 115 ELSE 1]
PrevBufs == {ZeroBuf, FullBuf}
\* source buffers of the decoder: code units that are zero, ASCII, or not
\* ASCII (0x00E9, 0x4E2D)
SrcUnits == {<<0, 0>>, <<65, 0>>, <<233, 0>>, <<45, 78>>}
SrcBufs == {Flatten(u) : u \in [1..MaxUnits -> SrcUnits]}
InLens == 0..MaxUnits
OutLens == 1..(MaxUnits + 2)

NoEnc == [n |-> 0, out |-> <<>>]
NoDec == [out |-> <<>>, rd |-> {}, wr |-> <<>>]
CodecIdle ==
    [pc |-> "idle", text |-> <<>>, prev |-> <<>>, src |-> <<>>, inlen |-> 0,
     outlen |-> 0, enc |-> NoEnc, dec |-> NoDec]

(* -------------------------------- state ------------------------------- *)
VARIABLES
    pc,       \* position in the program
    cmd,      \* how main() was invoked: "usage", "single" or "batch"
    verbose,  \* number of -v flags
    argv,     \* the positional arguments after the interface name
    file,     \* the lines of the configuration file (-f)
    lineno,   \* the next line fgets() returns
    eof,      \* feof(fp)
    fumbp,    \* struct umb_parameter umbp of _umbctl_file
    umbp,     \* struct umb_parameter umbp of _umbctl
    fd,       \* the socket: "none", "open" or "closed"
    closes,   \* number of close(fd) calls
    reqs,     \* the ioctl requests issued, in order
    sets,     \* the calls of _umbctl_set, in order
    tokmax,   \* largest index written into tokens[] so far (-1: none)
    stderr,   \* the diagnostics printed
    rendered, \* number of reports printed by _umbctl_info
    exit,     \* the exit status (-1 while running)
    codec     \* one call of the codec on its own (see SpecCodec)

vars == <<codec, pc, cmd, verbose, argv, file, lineno, eof, fumbp, umbp, fd, closes,
          reqs, sets, tokmax, stderr, rendered, exit>>

Init ==
    /\ pc = "main"
    /\ cmd \in {"usage", "single", "batch"}
    /\ verbose \in 0..1
    /\ argv \in (IF cmd = "single" THEN ArgvSet
                 ELSE IF cmd = "batch" THEN BatchArgvSet ELSE {<<>>})
    /\ file \in (IF cmd = "batch" THEN FileSet ELSE {<<>>})
    /\ lineno = 1
    /\ eof = FALSE
    /\ fumbp = ZeroParam
    /\ umbp = ZeroParam
    /\ fd = "none"
    /\ closes = 0
    /\ reqs = <<>>
    /\ sets = <<>>
    /\ tokmax = -1
    /\ stderr = <<>>
    /\ rendered = 0
    /\ exit = -1
    /\ codec = CodecIdle

argc == Len(argv)

\* _umbctl returns r to its caller: main() returns it as the exit status,
\* _umbctl_file() returns 0 instead
Return(r) ==
    /\ pc' = "done"
    /\ exit' = IF cmd = "batch" THEN _umbctl_file_ret(r) ELSE r

Ioctl(req, ok, data) == [req |-> req, ok |-> ok, data |-> data]
IoctlError == Diag("ifname", <<>>, "strerror")

\* main(): option parsing and dispatch (lines 359-384)
Main ==
    /\ pc = "main"
    /\ IF cmd = "usage"
       THEN /\ pc' = "done"
            /\ exit' = 1
            /\ stderr' = Append(stderr, Diag("usage", <<>>, "Usage"))
       ELSE /\ pc' = IF cmd = "batch" THEN "fopen" ELSE "socket"
            /\ UNCHANGED <<exit, stderr>>
    /\ UNCHANGED <<codec, cmd, verbose, argv, file, lineno, eof, fumbp, umbp, fd,
                   closes, reqs, sets, tokmax, rendered>>

\* _umbctl_file(): fopen and memset (lines 187-189)
FOpen ==
    /\ pc = "fopen"
    /\ \E ok \in BOOLEAN :
        IF ok
        THEN /\ fumbp' = ZeroParam
             /\ pc' = "fgets"
             /\ UNCHANGED <<exit, stderr>>
        ELSE /\ stderr' = Append(stderr, Diag("file", <<>>, "strerror"))
             /\ exit' = 2
             /\ pc' = "done"
             /\ UNCHANGED fumbp
    /\ UNCHANGED <<codec, cmd, verbose, argv, file, lineno, eof, umbp, fd, closes,
                   reqs, sets, tokmax, rendered>>

\* one iteration of the while loop of _umbctl_file (lines 190-201)
FGetsLine ==
    /\ pc = "fgets"
    /\ lineno <= Len(file)
    /\ LET line == file[lineno]
           toks == strtok_r(line, <<>>)
           i == TokenCount(line)
       IN  /\ eof' = (line[Len(line)] # NL)
           /\ IF line[1] = HASH
              THEN /\ lineno' = lineno + 1
                   /\ UNCHANGED <<pc, fumbp, sets, tokmax, stderr, exit>>
              ELSE \E o \in Outcomes(i) :
                   /\ tokmax' = IF i > tokmax THEN i ELSE tokmax
                   /\ IF o = "crash"
                      THEN /\ pc' = "done"
                           /\ exit' = 128 + 11
                           /\ UNCHANGED <<lineno, fumbp, sets, stderr>>
                      ELSE LET n == IF o = "i_clobbered" THEN 0 ELSE i
                               r == _umbctl_set(fumbp, n, toks)
                           IN  /\ fumbp' = r.umbp
                               /\ stderr' = stderr \o r.err
                               /\ sets' = Append(sets,
                                      [line |-> lineno, argc |-> n,
                                       argv |-> toks, ret |-> r.ret,
                                       err |-> r.err,
                                       before |-> fumbp, after |-> r.umbp])
                               /\ IF r.ret # 0
                                  THEN pc' = "fclose" /\ UNCHANGED lineno
                                  ELSE lineno' = lineno + 1 /\ UNCHANGED pc
                               /\ UNCHANGED exit
    /\ UNCHANGED <<codec, cmd, verbose, argv, file, umbp, fd, closes, reqs,
                   rendered>>

\* fgets() returns NULL: end of file, or a read error (line 190)
FGetsEnd ==
    /\ pc = "fgets"
    /\ lineno > Len(file)
    /\ \E rerr \in BOOLEAN : eof' = (eof \/ ~rerr)
    /\ pc' = "fclose"
    /\ UNCHANGED <<codec, cmd, verbose, argv, file, lineno, fumbp, umbp, fd, closes,
                   reqs, sets, tokmax, stderr, rendered, exit>>

\* feof, fclose, and the call of _umbctl (lines 202-207)
FClose ==
    /\ pc = "fclose"
    /\ \E ok \in BOOLEAN :
        IF SourceError(ok, eof)
        THEN /\ stderr' = Append(stderr, Diag("file", <<>>, "strerror"))
             /\ exit' = 2
             /\ pc' = "done"
        ELSE /\ pc' = "socket"
             /\ UNCHANGED <<stderr, exit>>
    /\ UNCHANGED <<codec, cmd, verbose, argv, file, lineno, eof, fumbp, umbp, fd,
                   closes, reqs, sets, tokmax, rendered>>

\* _umbctl(): _umbctl_socket (lines 142-146, 322-329)
Socket ==
    /\ pc = "socket"
    /\ \E ok \in BOOLEAN :
        IF ok
        THEN /\ fd' = "open"
             /\ pc' = IF HasArgs(argc) THEN "getparam" ELSE "getinfo"
             /\ UNCHANGED <<stderr, exit>>
        ELSE /\ stderr' = Append(stderr, Diag("socket", <<>>, "strerror"))
             /\ Return(_umbctl_ret("socket"))
             /\ UNCHANGED fd
    /\ UNCHANGED <<codec, cmd, verbose, argv, file, lineno, eof, fumbp, umbp, closes,
                   reqs, sets, tokmax, rendered>>

\* memset and ioctl(SIOCGUMBPARAM) (lines 148-150)
GetParam ==
    /\ pc = "getparam"
    /\ \E ok \in BOOLEAN, dev \in DevParams :
        /\ reqs' = Append(reqs, Ioctl("SIOCGUMBPARAM", ok,
                                      IF ok THEN dev ELSE ZeroParam))
        /\ IF ok
           THEN /\ umbp' = dev
                /\ pc' = "set"
                /\ UNCHANGED <<stderr, exit, fd, closes>>
           ELSE /\ umbp' = ZeroParam
                /\ stderr' = Append(stderr, IoctlError)
                /\ fd' = close(fd)
                /\ closes' = closes + 1
                /\ Return(_umbctl_ret("getparam"))
    /\ UNCHANGED <<codec, cmd, verbose, argv, file, lineno, eof, fumbp, sets, tokmax,
                   rendered>>

\* _umbctl_set on the fetched record (line 151)
SetArgs ==
    /\ pc = "set"
    /\ LET r == _umbctl_set(umbp, argc, argv)
       IN  /\ umbp' = r.umbp
           /\ stderr' = stderr \o r.err
           /\ sets' = Append(sets, [line |-> 0, argc |-> argc, argv |-> argv,
                                    ret |-> r.ret, err |-> r.err,
                                    before |-> umbp, after |-> r.umbp])
           /\ IF r.ret # 0
              THEN /\ fd' = close(fd)
                   /\ closes' = closes + 1
                   /\ Return(_umbctl_ret("set"))
              ELSE /\ pc' = "setparam"
                   /\ UNCHANGED <<fd, closes, exit>>
    /\ UNCHANGED <<codec, cmd, verbose, argv, file, lineno, eof, fumbp, reqs, tokmax,
                   rendered>>

\* ioctl(SIOCSUMBPARAM) (lines 152-158)
SetParam ==
    /\ pc = "setparam"
    /\ \E ok \in BOOLEAN :
        /\ reqs' = Append(reqs, Ioctl("SIOCSUMBPARAM", ok,
                                      ifr_data(umbp, fumbp)))
        /\ IF ok
           THEN /\ pc' = IF InfoWanted(argc, verbose) THEN "getinfo"
                         ELSE "close"
                /\ UNCHANGED <<stderr, exit, fd, closes>>
           ELSE /\ stderr' = Append(stderr, IoctlError)
                /\ fd' = close(fd)
                /\ closes' = closes + 1
                /\ Return(_umbctl_ret("setparam"))
    /\ UNCHANGED <<codec, cmd, verbose, argv, file, lineno, eof, fumbp, umbp, sets,
                   tokmax, rendered>>

\* ioctl(SIOCGUMBINFO) and _umbctl_info (lines 159-168)
GetInfo ==
    /\ pc = "getinfo"
    /\ \E ok \in BOOLEAN :
        /\ reqs' = Append(reqs, Ioctl("SIOCGUMBINFO", ok, ZeroParam))
        /\ IF ok
           THEN /\ rendered' = rendered + 1
                /\ pc' = "close"
                /\ UNCHANGED <<stderr, exit, fd, closes>>
           ELSE /\ stderr' = Append(stderr, IoctlError)
                /\ fd' = close(fd)
                /\ closes' = closes + 1
                /\ Return(_umbctl_ret("getinfo"))
                /\ UNCHANGED rendered
    /\ UNCHANGED <<codec, cmd, verbose, argv, file, lineno, eof, fumbp, umbp, sets,
                   tokmax>>

\* close(fd) and return (lines 169-171)
Close ==
    /\ pc = "close"
    /\ fd' = close(fd)
    /\ closes' = closes + 1
    /\ \E ok \in BOOLEAN :
        IF ok
        THEN Return(_umbctl_ret("end")) /\ UNCHANGED stderr
        ELSE Return(_umbctl_ret("close")) /\ stderr' = Append(stderr, IoctlError)
    /\ UNCHANGED <<codec, cmd, verbose, argv, file, lineno, eof, fumbp, umbp, reqs,
                   sets, tokmax, rendered>>

Next ==
    \/ Main
    \/ FOpen
    \/ FGetsLine
    \/ FGetsEnd
    \/ FClose
    \/ Socket
    \/ GetParam
    \/ SetArgs
    \/ SetParam
    \/ GetInfo
    \/ Close

Spec == Init /\ [][Next]_vars

(* ---------------------- the codec on its own -------------------------- *)
mainVars == <<pc, cmd, verbose, argv, file, lineno, eof, fumbp, umbp, fd,
              closes, reqs, sets, tokmax, stderr, rendered, exit>>

InitCodec ==
    /\ pc = "codec"
    /\ cmd = "usage"
    /\ verbose = 0
    /\ argv = <<>>
    /\ file = <<>>
    /\ lineno = 1
    /\ eof = FALSE
    /\ fumbp = ZeroParam
    /\ umbp = ZeroParam
    /\ fd = "none"
    /\ closes = 0
    /\ reqs = <<>>
    /\ sets = <<>>
    /\ tokmax = -1
    /\ stderr = <<>>
    /\ rendered = 0
    /\ exit = -1
    /\ \E t \in CodecTexts, p \in PrevBufs, b \in SrcBufs,
          il \in InLens, ol \in OutLens, m \in {"encode", "decode"} :
          codec = [pc |-> m,
                   text |-> IF m = "encode" THEN t ELSE <<>>,
                   prev |-> IF m = "encode" THEN p ELSE <<>>,
                   src |-> IF m = "decode" THEN b ELSE <<>>,
                   inlen |-> il, outlen |-> ol,
                   enc |-> NoEnc, dec |-> NoDec]

\* _char_to_utf16(text, buffer, sizeof(buffer)) on a buffer holding prev
Encode ==
    /\ codec.pc = "encode"
    /\ codec' = [codec EXCEPT !.pc = "encoded",
                              !.enc = _char_to_utf16(codec.text, codec.prev)]
    /\ UNCHANGED mainVars

\* _utf16_to_char on the buffer just encoded
DecodeEncoded ==
    /\ codec.pc = "encoded"
    /\ codec.enc.n >= 0
    /\ codec' = [codec EXCEPT !.pc = "roundtrip",
                              !.dec = _utf16_to_char(codec.enc.out,
                                                     codec.inlen,
                                                     codec.outlen)]
    /\ UNCHANGED mainVars

\* _utf16_to_char on a buffer the device filled
Decode ==
    /\ codec.pc = "decode"
    /\ codec' = [codec EXCEPT !.pc = "decoded",
                              !.dec = _utf16_to_char(codec.src, codec.inlen,
                                                     codec.outlen)]
    /\ UNCHANGED mainVars

NextCodec ==
    \/ Encode
    \/ DecodeEncoded
    \/ Decode

SpecCodec == InitCodec /\ [][NextCodec]_vars

(* ====================================================================== *)
(* Reference definitions used by the properties: what the specification   *)
(* calls applyField / applySequence, written directly on texts.           *)
(* ====================================================================== *)
\* the wire image of the ASCII text v in a field buffer: its first
\* MaxUnits characters as little-endian code units, the rest zero
Enc(v) ==
    [j \in 1..BufLen |->
        IF j % 2 = 1 /\ (j + 1) \div 2 <= Len(v) THEN v[(j + 1) \div 2] ELSE 0]
EncLen(v) == IF Len(v) > MaxUnits THEN -1 ELSE 2 * Len(v)

RefAssign(u, name, v) ==
    IF name = kw_apn THEN [u EXCEPT !.apn = Enc(v), !.apnlen = EncLen(v)]
    ELSE IF name = kw_username
    THEN [u EXCEPT !.username = Enc(v), !.usernamelen = EncLen(v)]
    ELSE IF name = kw_password
    THEN [u EXCEPT !.password = Enc(v), !.passwordlen = EncLen(v)]
    ELSE [u EXCEPT !.pin = Enc(v), !.pinlen = EncLen(v),
                   !.is_puk = IF name = kw_puk THEN 1 ELSE 0,
                   !.op = MBIM_PIN_OP_ENTER]

\* the record after the assignments held by the first n tokens of a
RECURSIVE RefApply(_, _, _)
RefApply(u, a, n) ==
    IF n < 2 THEN u ELSE RefAssign(RefApply(u, a, n - 2), a[n - 1], a[n])

\* the position (from 1) of the first token from i on that cannot be
\* applied: an unknown name, a name without a value, or a name whose value
\* is too long; 0 when every assignment applies
RECURSIVE FirstFail(_, _)
FirstFail(a, i) ==
    IF i > Len(a) THEN 0
    ELSE IF a[i] \in Keywords /\ i + 1 <= Len(a)
    THEN (IF Len(a[i + 1]) > MaxUnits THEN i ELSE FirstFail(a, i + 2))
    ELSE i
\* the failure at position k is a too-long value
TooLongAt(a, k) == k > 0 /\ a[k] \in Keywords /\ k + 1 <= Len(a)

Args(s) == SubSeq(s.argv, 1, s.argc)
Calls == {sets[j] : j \in 1..Len(sets)}
BufOf(name) ==
    IF name = kw_apn THEN "apn" ELSE IF name = kw_username THEN "username"
    ELSE IF name = kw_password THEN "password" ELSE "pin"
FieldBuf(u, name) ==
    IF name = kw_apn THEN u.apn ELSE IF name = kw_username THEN u.username
    ELSE IF name = kw_password THEN u.password ELSE u.pin
FieldLen(u, name) ==
    IF name = kw_apn THEN u.apnlen
    ELSE IF name = kw_username THEN u.usernamelen
    ELSE IF name = kw_password THEN u.passwordlen ELSE u.pinlen

Issued(req) == \E k \in 1..Len(reqs) : reqs[k].req = req
Failed(req) == \E k \in 1..Len(reqs) : reqs[k].req = req /\ ~reqs[k].ok
AnyRequestFailed == \E k \in 1..Len(reqs) : ~reqs[k].ok
AnyAssignmentFailed == \E s \in Calls : s.ret # 0

(* ------------------------------- C1 ----------------------------------- *)
\* C1: in single-shot mode with arguments, SIOCSUMBPARAM is issued only
\* as the second request, after a successful SIOCGUMBPARAM and after every
\* assignment of the command line applied; when the fetch fails or an
\* assignment fails, the run is over with a non-zero status and no
\* SIOCSUMBPARAM was issued.
C1_PushOnlyAfterFetchAndApply ==
    (cmd = "single" /\ argc # 0) =>
        /\ Issued("SIOCSUMBPARAM") =>
            /\ Len(reqs) >= 2
            /\ reqs[1].req = "SIOCGUMBPARAM" /\ reqs[1].ok
            /\ reqs[2].req = "SIOCSUMBPARAM"
            /\ \A k \in 3..Len(reqs) : reqs[k].req # "SIOCSUMBPARAM"
            /\ FirstFail(argv, 1) = 0
            /\ Len(sets) = 1 /\ sets[1].ret = 0
        /\ (Failed("SIOCGUMBPARAM")
              \/ (sets # <<>> /\ FirstFail(argv, 1) # 0)) =>
            /\ ~Issued("SIOCSUMBPARAM")
            /\ pc = "done"
            /\ exit # 0

C1_Witness ==
    /\ cmd = "single"
    /\ Len(argv) = 4
    /\ Issued("SIOCSUMBPARAM")

(* ------------------------------- C2 ----------------------------------- *)
\* C2 as stated: after an assignment that fails as too long, the buffer
\* and the length of the field are what they were before that assignment.
C2_Original ==
    \A s \in Calls :
        LET a == Args(s)
            k == FirstFail(a, 1)
        IN  TooLongAt(a, k) =>
                /\ FieldBuf(s.after, a[k]) =
                       FieldBuf(RefApply(s.before, a, k - 1), a[k])
                /\ FieldLen(s.after, a[k]) =
                       FieldLen(RefApply(s.before, a, k - 1), a[k])

\* C2 amended: an assignment whose text is longer than the field fails
\* with -1, but it has written the record: the buffer of the field holds
\* the first MaxUnits code units of the text and its length is -1; the
\* buffers and lengths of the other text fields are what they were before.
C2_TooLongOverwrites ==
    \A s \in Calls :
        LET a == Args(s)
            k == FirstFail(a, 1)
        IN  TooLongAt(a, k) =>
                /\ s.ret = -1
                /\ FieldBuf(s.after, a[k]) = Enc(a[k + 1])
                /\ FieldLen(s.after, a[k]) = -1
                /\ \A g \in Keywords :
                       BufOf(g) # BufOf(a[k]) =>
                           /\ FieldBuf(s.after, g) =
                                  FieldBuf(RefApply(s.before, a, k - 1), g)
                           /\ FieldLen(s.after, g) =
                                  FieldLen(RefApply(s.before, a, k - 1), g)

C2_Witness ==
    \E s \in Calls :
        LET a == Args(s)
            k == FirstFail(a, 1)
        IN  /\ TooLongAt(a, k)
            /\ s.ret # 0
            /\ FieldBuf(s.after, a[k]) #
                   FieldBuf(RefApply(s.before, a, k - 1), a[k])

(* ------------------------------- C3 ----------------------------------- *)
\* C3: in batch mode, once the assignments of a line have failed, no later
\* line is folded, no request reaches the device, and the run ends with a
\* non-zero status.
C3_FailingLineFailsBatch ==
    cmd = "batch" =>
        \A j \in 1..Len(sets) :
            (sets[j].line > 0 /\ sets[j].ret # 0) =>
                /\ \A i \in (j + 1)..Len(sets) : sets[i].line = 0
                /\ reqs = <<>>
                /\ pc # "socket"
                /\ (pc = "done" => exit # 0)

(* ------------------------------- C4 ----------------------------------- *)
\* C4: a run in which a request or a field assignment failed never ends
\* with status 0.
C4_NoFailureExitsZero ==
    (pc = "done" /\ (AnyRequestFailed \/ AnyAssignmentFailed)) => exit # 0

(* ------------------------------- C5 ----------------------------------- *)
\* C5 as stated, for single-shot runs: a failed request exits 2 and a
\* too-long field exits 3 or 4.
C5_Original ==
    (cmd = "single" /\ pc = "done") =>
        /\ AnyRequestFailed => exit = 2
        /\ (sets # <<>> /\ TooLongAt(argv, FirstFail(argv, 1))) =>
               exit \in {3, 4}

\* C5 amended: a usage error exits 1; a single-shot run exits 2 on a socket
\* error, a failed SIOCGUMBPARAM or SIOCSUMBPARAM, a failed close, or a
\* failed assignment of any kind (too long, whichever the field, unknown
\* or incomplete), 3 on a failed SIOCGUMBINFO, and 0 otherwise; no run
\* exits 4.
C5_ExitStatus ==
    pc = "done" =>
        /\ exit # 4
        /\ cmd = "usage" => exit = 1
        /\ cmd = "single" =>
            exit = IF \E d \in 1..Len(stderr) : stderr[d].who = "socket"
                   THEN 2
                   ELSE IF Failed("SIOCGUMBPARAM") \/ Failed("SIOCSUMBPARAM")
                   THEN 2
                   ELSE IF sets # <<>> /\ FirstFail(argv, 1) # 0 THEN 2
                   ELSE IF Failed("SIOCGUMBINFO") THEN 3
                   ELSE IF stderr # <<>> THEN 2
                   ELSE 0

C5_Witness ==
    /\ cmd = "single"
    /\ pc = "done"
    /\ sets # <<>>
    /\ TooLongAt(argv, FirstFail(argv, 1))
    /\ argv[FirstFail(argv, 1)] = kw_pin
    /\ exit = 2

(* ------------------------------- C6 ----------------------------------- *)
TooLongText(name) ==
    IF name = kw_apn THEN "APN too long"
    ELSE IF name = kw_username THEN "Username too long"
    ELSE IF name = kw_password THEN "Password too long"
    ELSE IF name = kw_pin THEN "PIN code too long"
    ELSE "PUK code too long"

\* C6: the diagnostic of an assignment that fails as too long names the
\* field that was being assigned.
C6_TooLongNamesField ==
    \A s \in Calls :
        LET a == Args(s)
            k == FirstFail(a, 1)
        IN  TooLongAt(a, k) =>
                s.err = <<Diag("ifname", <<>>, TooLongText(a[k]))>>

(* ------------------------------- C7 ----------------------------------- *)
\* C7 as stated: when the assignment at position k fails, every field
\* assigned by the assignments before k still holds what they wrote.
C7_Original ==
    \A s \in Calls :
        LET a == Args(s)
            k == FirstFail(a, 1)
        IN  k > 0 =>
                \A j \in 1..(k - 1) :
                    j % 2 = 1 =>
                        /\ FieldBuf(s.after, a[j]) =
                               FieldBuf(RefApply(s.before, a, k - 1), a[j])
                        /\ FieldLen(s.after, a[j]) =
                               FieldLen(RefApply(s.before, a, k - 1), a[j])

\* C7 amended: the assignments are applied in order and the first failure
\* ends the sequence without rollback: the record is then the one the
\* assignments before k produce, except that a too-long k has itself
\* overwritten its own field (buffer truncated to the capacity, length -1,
\* and for pin/puk is_puk and op); nothing after k is applied.
C7_FailFastNoRollback ==
    \A s \in Calls :
        LET a == Args(s)
            k == FirstFail(a, 1)
        IN  k > 0 =>
                /\ s.ret # 0
                /\ s.after =
                       IF TooLongAt(a, k)
                       THEN RefAssign(RefApply(s.before, a, k - 1),
                                      a[k], a[k + 1])
                       ELSE RefApply(s.before, a, k - 1)

C7_Witness ==
    \E s \in Calls :
        LET a == Args(s)
            k == FirstFail(a, 1)
        IN  /\ k >= 3
            /\ ~TooLongAt(a, k)
            /\ a[1] = kw_username
            /\ s.ret # 0
            /\ s.after.username # s.before.username

(* ------------------------------- C8 ----------------------------------- *)
\* C8: a configuration line of three tokens (name, value, third) folds as
\* the assignment (name, value) alone and does not fail.
C8_ThirdTokenIgnored ==
    \A s \in Calls :
        (/\ s.line > 0
         /\ Len(s.argv) = 3
         /\ s.argv[1] \in Keywords
         /\ Len(s.argv[2]) <= MaxUnits) =>
            /\ s.ret = 0
            /\ s.after = RefAssign(s.before, s.argv[1], s.argv[2])

(* ------------------------------- C9 ----------------------------------- *)
Kinds == [k \in 1..Len(reqs) |-> reqs[k].req]
ExpectedKinds ==
    (IF argc # 0 THEN <<"SIOCGUMBPARAM", "SIOCSUMBPARAM">> ELSE <<>>)
    \o (IF argc = 0 \/ verbose > 0 THEN <<"SIOCGUMBINFO">> ELSE <<>>)

\* C9: in batch mode the requests and the record pushed do not depend on
\* the configuration file: the requests are a prefix of the sequence the
\* trailing arguments and -v determine, cut only at a failed request or a
\* failed trailing assignment, and the record of SIOCSUMBPARAM is the
\* fetched record with the trailing arguments applied.
C9_BatchRecordNotPushed ==
    cmd = "batch" =>
        /\ Len(Kinds) <= Len(ExpectedKinds)
        /\ Kinds = SubSeq(ExpectedKinds, 1, Len(Kinds))
        /\ \A k \in 1..(Len(reqs) - 1) : reqs[k].ok
        /\ \A k \in 1..Len(reqs) :
               reqs[k].req = "SIOCSUMBPARAM" =>
                   /\ k = 2
                   /\ reqs[k].data = RefApply(reqs[1].data, argv, Len(argv))
        /\ (fd = "closed" /\ ~AnyRequestFailed /\ FirstFail(argv, 1) = 0) =>
               Kinds = ExpectedKinds

C9_Witness ==
    /\ cmd = "batch"
    /\ Issued("SIOCSUMBPARAM")
    /\ fumbp.pinlen > 0
    /\ \E s \in Calls : s.line > 0 /\ s.ret = 0 /\ s.after # s.before

(* ------------------------------- C10 ---------------------------------- *)
PinIdx(a) == {k \in 1..Len(a) : k % 2 = 1 /\ a[k] \in {kw_pin, kw_puk}}
LastOf(S) == CHOOSE x \in S : \A y \in S : y <= x

\* C10: after a successful sequence holding a pin or puk assignment, is_puk
\* is 1 exactly when the last of them is puk, op is MBIM_PIN_OP_ENTER, and
\* the pin buffer and pinlen hold the value of that last assignment only.
C10_PinPukLastWins ==
    \A s \in Calls :
        LET a == Args(s)
        IN  (s.ret = 0 /\ PinIdx(a) # {}) =>
                LET k == LastOf(PinIdx(a))
                IN  /\ (s.after.is_puk = 1) <=> (a[k] = kw_puk)
                    /\ s.after.is_puk \in {0, 1}
                    /\ s.after.op = MBIM_PIN_OP_ENTER
                    /\ s.after.pin = Enc(a[k + 1])
                    /\ s.after.pinlen = 2 * Len(a[k + 1])

C10_Witness ==
    \E s \in Calls :
        LET a == Args(s)
        IN  /\ s.ret = 0
            /\ Len(a) = 4
            /\ a[1] = kw_puk /\ a[3] = kw_pin
            /\ Len(a[2]) > Len(a[4])
            /\ s.before.is_puk = 1
            /\ s.before.op # MBIM_PIN_OP_ENTER

(* ------------------------------- C11 ---------------------------------- *)
\* C11: for an ASCII text of at most MaxUnits characters the encoder
\* returns twice its length, and decoding the buffer with a count of
\* MaxUnits code units into at least length + 1 bytes gives the text back.
C11_RoundTrip ==
    (codec.pc \in {"encoded", "roundtrip"}
        /\ Len(codec.text) <= MaxUnits) =>
        /\ codec.enc.n = 2 * Len(codec.text)
        /\ (codec.pc = "roundtrip" /\ codec.inlen = MaxUnits
              /\ codec.outlen >= Len(codec.text) + 1) =>
               CString(codec.dec.out) = codec.text

C11_Witness ==
    /\ codec.pc = "roundtrip"
    /\ Len(codec.text) = MaxUnits
    /\ codec.inlen = MaxUnits
    /\ codec.outlen = MaxUnits + 1
    /\ codec.prev = FullBuf

(* ------------------------------- C12 ---------------------------------- *)
\* C12: after a successful encode every byte of the buffer past the code
\* units of the text is zero, whatever the buffer held.
C12_ResidualCleared ==
    (codec.pc \in {"encoded", "roundtrip"} /\ codec.enc.n >= 0) =>
        /\ Len(codec.enc.out) = BufLen
        /\ \A j \in (2 * Len(codec.text) + 1)..BufLen : codec.enc.out[j] = 0

C12_Witness ==
    /\ codec.pc = "encoded"
    /\ codec.prev = FullBuf
    /\ Len(codec.text) > 0
    /\ Len(codec.text) < MaxUnits

(* ------------------------------- C13 ---------------------------------- *)
\* C13: once the socket is open, the run ends only after exactly one
\* close(fd), whatever the exit path.
C13_SocketClosedOnce ==
    /\ closes <= 1
    /\ (fd = "closed") <=> (closes = 1)
    /\ fd = "closed" => pc = "done"
    /\ (pc = "done" /\ fd # "none") => (fd = "closed" /\ closes = 1)

C13_Witness ==
    /\ pc = "done"
    /\ Failed("SIOCSUMBPARAM")
    /\ closes = 1

(* ------------------------------- C14 ---------------------------------- *)
\* the positions of a that hold a value parsed for password, pin or puk
SecretPositions(a) ==
    { i + 1 : i \in { j \in 1..(Len(a) - 1) :
                        /\ j % 2 = 1
                        /\ a[j] \in {kw_password, kw_pin, kw_puk}
                        /\ (FirstFail(a, 1) = 0 \/ j <= FirstFail(a, 1)) } }

NamePositions(a) == {j \in 1..Len(a) : j % 2 = 1}

\* C15: a successful sequence leaves every text field it does not name as
\* it was, and is_puk and op too unless it names pin or puk; no sequence,
\* successful or not, changes roaming or preferredclasses.
C15_Frame ==
    \A s \in Calls :
        LET a == Args(s)
        IN  /\ s.after.roaming = s.before.roaming
            /\ s.after.preferredclasses = s.before.preferredclasses
            /\ s.ret = 0 =>
                /\ \A g \in Keywords :
                       (\A j \in NamePositions(a) : BufOf(a[j]) # BufOf(g)) =>
                           /\ FieldBuf(s.after, g) = FieldBuf(s.before, g)
                           /\ FieldLen(s.after, g) = FieldLen(s.before, g)
                /\ (\A j \in NamePositions(a) : BufOf(a[j]) # "pin") =>
                       /\ s.after.is_puk = s.before.is_puk
                       /\ s.after.op = s.before.op

C15_Witness ==
    \E s \in Calls :
        /\ s.ret = 0
        /\ Args(s) = <<kw_apn, TShort>>
        /\ s.before = DevParam
        /\ s.after.apn # s.before.apn

(* ------------------------------- C16 ---------------------------------- *)
Pushed ==
    /\ Len(reqs) >= 2
    /\ reqs[1].req = "SIOCGUMBPARAM" /\ reqs[1].ok
    /\ reqs[2].req = "SIOCSUMBPARAM" /\ reqs[2].ok

\* C16: SIOCGUMBINFO is the last request and is issued exactly when there
\* are no arguments (then it is the only request) or the arguments were
\* pushed successfully and -v was given; the report is printed exactly
\* when that request succeeds.
C16_InfoExactlyWhen ==
    /\ Issued("SIOCGUMBINFO") =>
        /\ reqs[Len(reqs)].req = "SIOCGUMBINFO"
        /\ \/ argc = 0 /\ Len(reqs) = 1
           \/ /\ argc # 0 /\ verbose > 0 /\ Len(reqs) = 3
              /\ Pushed
              /\ FirstFail(argv, 1) = 0
    /\ argc = 0 => (~Issued("SIOCGUMBPARAM") /\ ~Issued("SIOCSUMBPARAM"))
    /\ (pc = "done" /\ fd # "none"
          /\ (argc = 0 \/ (Pushed /\ verbose > 0))) => Issued("SIOCGUMBINFO")
    /\ rendered =
           IF Issued("SIOCGUMBINFO") /\ ~Failed("SIOCGUMBINFO") THEN 1 ELSE 0

C16_Witness ==
    /\ cmd = "single"
    /\ argc # 0
    /\ verbose > 0
    /\ rendered = 1
    /\ pc = "done"

(* ------------------------------- C17 ---------------------------------- *)
\* C17: after (f, A) then (f, B), the buffer and the length of f are those
\* (f, B) alone gives on the same starting record.
C17_LastWriteWins ==
    \A s \in Calls :
        LET a == Args(s)
        IN  (s.ret = 0 /\ Len(a) = 4 /\ a[1] = a[3]) =>
                /\ FieldBuf(s.after, a[1]) =
                       FieldBuf(set_field(s.before, a[3], a[4]).umbp, a[1])
                /\ FieldLen(s.after, a[1]) =
                       FieldLen(set_field(s.before, a[3], a[4]).umbp, a[1])

C17_Witness ==
    \E s \in Calls :
        LET a == Args(s)
        IN  /\ s.ret = 0
            /\ Len(a) = 4
            /\ a[1] = kw_password /\ a[3] = kw_password
            /\ Len(a[2]) > Len(a[4])
            /\ s.before = DevParam

(* ------------------------------- C18 ---------------------------------- *)
DecSource == IF codec.pc = "decoded" THEN codec.src ELSE codec.enc.out
\* the number of code units before the first zero one
UnitsBeforeZero(b) ==
    LET Z == {k \in 1..(Len(b) \div 2) : b[2 * k - 1] = 0 /\ b[2 * k] = 0}
    IN  IF Z = {} THEN Len(b) \div 2
        ELSE (CHOOSE k \in Z : \A z \in Z : k <= z) - 1
Least(S) == CHOOSE x \in S : \A y \in S : x <= y

\* C18: the decoder stores, at consecutive positions from the start of
\* out, as many characters as the smallest of the count, the capacity
\* minus one and the number of code units before the first zero one, then
\* one NUL, nothing else; it reads no code unit past the count.
C18_DecodeBounded ==
    codec.pc \in {"decoded", "roundtrip"} =>
        LET d == codec.dec
            nchars == Len(d.wr) - 1
        IN  /\ Len(d.wr) >= 1
            /\ \A i \in 1..Len(d.wr) :
                   /\ d.wr[i][1] = i
                   /\ d.wr[i][1] <= codec.outlen
                   /\ (d.wr[i][2] = 0) <=> (i = Len(d.wr))
            /\ nchars = Least({codec.inlen, codec.outlen - 1,
                               UnitsBeforeZero(DecSource)})
            /\ d.rd \subseteq 1..codec.inlen
            /\ \A i \in 1..nchars :
                   d.wr[i][2] =
                       IF DecSource[2 * i] = 0 /\ DecSource[2 * i - 1] <= 127
                       THEN DecSource[2 * i - 1] ELSE 63
            /\ Len(d.out) = codec.outlen
            /\ \A j \in (Len(d.wr) + 1)..codec.outlen : d.out[j] = -1

C18_Witness ==
    /\ codec.pc = "decoded"
    /\ codec.inlen = MaxUnits
    /\ codec.outlen = 2
    /\ UnitsBeforeZero(codec.src) = MaxUnits
    /\ codec.dec.wr = <<(<<1, 63>>), (<<2, 0>>)>>

(* ------------------------------- C19 ---------------------------------- *)
\* C19: a line "name value\n" folds as the assignment (name, value), the
\* value stored without the line terminator, and a comment line is never
\* handed to the record builder.
C19_LineFoldsAsAssignment ==
    cmd = "batch" =>
        \A s \in Calls :
            s.line > 0 =>
                /\ file[s.line][1] # HASH
                /\ \A n \in Keywords, v \in Values \ {<<>>} :
                       file[s.line] = n \o <<SP>> \o v \o <<NL>> =>
                           /\ s.after = RefAssign(s.before, n, v)
                           /\ (s.ret = 0) <=> (Len(v) <= MaxUnits)

(* ------------------------------- C20 ---------------------------------- *)
\* C20: every store into tokens[], the NULL after the loop included, uses
\* an index of the array.
C20_TokenIndexInBounds == tokmax <= TokensLast

====
